---- MODULE Spec2Model ----
(***************************************************************************)
(* Book collection (app.py): a books table, a directory of uploaded cover  *)
(* files, and a collage file derived from the cover directory.             *)
(*                                                                         *)
(* Strings that the code takes apart (author names, upload file names) are *)
(* sequences of one-character strings.                                     *)
(***************************************************************************)
EXTENDS Integers, Sequences, FiniteSets, TLC

VARIABLES
    books,      \* rows of the books table (a set of records)
    nextId,     \* the AUTOINCREMENT counter: the id the next INSERT gets
    covers,     \* COVERS_DIR: file name -> bytes
    collage,    \* COLLAGE_PATH: NoFile, or the image saved there
    now,        \* datetime.now(), in seconds
    response,   \* what the last handler returned
    last,       \* the last request served, with what it found (history)
    layout,     \* the grid computed for an asset count (SpecLayout)
    procs,      \* in-flight requests of the overlapping-requests model
    loopBusy    \* the request that holds the event loop, or NoProc

vars == <<books, nextId, covers, collage, now, response, last, layout, procs, loopBusy>>

----------------------------------------------------------------------------
(* Bounds *)

MaxId == 2          \* at most this many INSERTs
MaxFiles == 2       \* at most this many cover files written
MaxClock == 1       \* the clock advances at most this far
MaxN == 66          \* SpecLayout: asset counts 1..MaxN
MaxDir == 4         \* SpecGenerate: directories of up to MaxDir files
MaxProcs == 2       \* overlapping requests

----------------------------------------------------------------------------
(* Characters and strings *)

UpperCase == <<"A","B","C","D","E","F","G","H","I","J","K","L","M",
               "N","O","P","Q","R","S","T","U","V","W","X","Y","Z">>
LowerCase == <<"a","b","c","d","e","f","g","h","i","j","k","l","m",
               "n","o","p","q","r","s","t","u","v","w","x","y","z">>

\* characters str.strip() and str.split() treat as whitespace (the ASCII ones used here)
Whitespace == {" ", "\t", "\n", "\r"}

UpperSet == { UpperCase[i] : i \in 1..Len(UpperCase) }

\* upper-case letter -> its lower-case letter
LowerOf ==
    [c \in UpperSet |-> LowerCase[CHOOSE i \in 1..Len(UpperCase) : UpperCase[i] = c]]

\* str.lower() on one character
LowerChar(c) == IF c \in UpperSet THEN LowerOf[c] ELSE c

\* str.lower()
Lower(s) == [i \in 1..Len(s) |-> LowerChar(s[i])]

RECURSIVE LStrip(_)
LStrip(s) ==
    IF s = <<>> THEN s
    ELSE IF Head(s) \in Whitespace THEN LStrip(Tail(s)) ELSE s

RECURSIVE RStrip(_)
RStrip(s) ==
    IF s = <<>> THEN s
    ELSE IF s[Len(s)] \in Whitespace THEN RStrip(SubSeq(s, 1, Len(s) - 1)) ELSE s

\* str.strip()
Strip(s) == RStrip(LStrip(s))

\* the characters of s before its first whitespace character
RECURSIVE TakeWord(_)
TakeWord(s) ==
    IF s = <<>> \/ Head(s) \in Whitespace THEN <<>>
    ELSE <<Head(s)>> \o TakeWord(Tail(s))

\* str.split(): the maximal runs of non-whitespace characters, in order
RECURSIVE Split(_)
Split(s) ==
    LET t == LStrip(s) IN
    IF t = <<>> THEN <<>>
    ELSE LET w == TakeWord(t) IN <<w>> \o Split(SubSeq(t, Len(w) + 1, Len(t)))

\* author_first_name without the lower() call
author_first_name_nolower(author) ==
    IF Strip(author) # <<>> THEN Split(Strip(author))[1] ELSE <<>>

\* author.strip().split()[0].lower() if author.strip() else ""
author_first_name(author) ==
    IF Strip(author) # <<>> THEN Lower(Split(Strip(author))[1]) ELSE <<>>

\* the index of the last "." of s, 0 when there is none (str.rfind)
RECURSIVE RFindDot(_)
RFindDot(s) ==
    IF s = <<>> THEN 0
    ELSE IF s[Len(s)] = "." THEN Len(s)
    ELSE RFindDot(SubSeq(s, 1, Len(s) - 1))

\* Path(name).suffix for a name without directory separators: from the last
\* "." on, unless the name has no ".", starts with its only "." or ends in "."
Suffix(name) ==
    LET i == RFindDot(name) IN
    IF 1 < i /\ i < Len(name) THEN SubSeq(name, i, Len(name)) ELSE <<>>

----------------------------------------------------------------------------
(* Inputs *)

\* SQL NULL in the cover_filename column (no file name has this form)
NULL == <<"NULL">>
\* a tile slot nothing was pasted on (white)
Blank == <<"Blank">>
NoProc == 0

Authors ==
    { <<>>, <<" ">>, <<"\t", " ">>, <<"J", "o">>, <<"a", " ", "B">>,
      <<" ", "J", "o", "\t", "D", " ">> }
OneAuthor == { <<"J", "o", " ", "D">> }
Titles == { "Emma" }
Editions == { "" }
Genres == { "Other" }
HoverMessages == { "" }

\* the cover parameter: None (present = FALSE), or an UploadFile with a file name
\* and bytes: an image that PIL decodes, or garbage that it rejects
NoUpload == [present |-> FALSE, filename |-> <<>>, bytes |-> "garbage"]
Uploads ==
    { NoUpload,
      [present |-> TRUE, filename |-> <<>>, bytes |-> "garbage"],
      [present |-> TRUE, filename |-> <<"c", ".", "J", "P", "G">>, bytes |-> "image"],
      [present |-> TRUE, filename |-> <<"c", ".", "g", "i", "f">>, bytes |-> "image"] }

PlainUploads ==
    { NoUpload,
      [present |-> TRUE, filename |-> <<"c", ".", "J", "P", "G">>, bytes |-> "image"] }

\* `cover and cover.filename`
HasUpload(cover) == cover.present /\ cover.filename # <<>>

\* RedirectResponse(url="/collection", status_code=303)
Redirect == [status |-> 303, location |-> "/collection"]
\* what the framework answers when a handler raises
ServerError == [status |-> 500, location |-> ""]
NoResponse == [status |-> 0, location |-> ""]

----------------------------------------------------------------------------
(* The cover directory *)

\* characters of file names, in code-point order
CodePoints == <<".", "0", "1", "2", "3", "4", "5", "6", "7", "8", "9">>
              \o UpperCase \o LowerCase

RankOf ==
    [c \in { CodePoints[i] : i \in 1..Len(CodePoints) } |->
        CHOOSE i \in 1..Len(CodePoints) : CodePoints[i] = c]

Rank(c) == RankOf[c]

\* a < b for two strings (lexicographic, as sorted() compares paths of a directory)
RECURSIVE StrLess(_, _)
StrLess(a, b) ==
    IF b = <<>> THEN FALSE
    ELSE IF a = <<>> THEN TRUE
    ELSE IF Head(a) = Head(b) THEN StrLess(Tail(a), Tail(b))
    ELSE Rank(Head(a)) < Rank(Head(b))

HexDigits == <<"0", "1", "2", "3", "4", "5", "6", "7", "8", "9",
               "a", "b", "c", "d", "e", "f">>

\* the values uuid.uuid4().hex takes: one hex digit stands for the 32
Hexes(k) == { <<HexDigits[i]>> : i \in 1..k }

\* uuid4 values do not repeat: a new one is the hex part of no file of the directory
FreshHex(dir, h) == \A f \in DOMAIN dir : SubSeq(f, 1, Len(h)) # h

\* f"{uuid.uuid4().hex}{suffix}" with suffix = Path(cover.filename).suffix.lower()
CoverName(h, cover) == h \o Lower(Suffix(cover.filename))

\* (COVERS_DIR / cover_filename).write_bytes(...), taken as one step
WriteBytes(dir, name, bytes) ==
    [f \in DOMAIN dir \cup {name} |-> IF f = name THEN bytes ELSE dir[f]]

\* sorted(...) of a set of names
RECURSIVE Sorted(_)
Sorted(S) ==
    IF S = {} THEN <<>>
    ELSE LET m == CHOOSE x \in S : \A y \in S \ {x} : StrLess(x, y)
         IN <<m>> \o Sorted(S \ {m})

AllowedSuffixes ==
    { <<".", "j", "p", "g">>, <<".", "j", "p", "e", "g">>,
      <<".", "p", "n", "g">>, <<".", "w", "e", "b", "p">> }

\* the listing without the suffix filter
ListCovers_unfiltered(dir) == Sorted(DOMAIN dir)

\* covers = sorted(COVERS_DIR.glob("*")), filtered by p.suffix.lower()
ListCovers(dir) ==
    SelectSeq(Sorted(DOMAIN dir), LAMBDA p : Lower(Suffix(p)) \in AllowedSuffixes)

----------------------------------------------------------------------------
(* The collage *)

Min(a, b) == IF a < b THEN a ELSE b
Max(a, b) == IF a > b THEN a ELSE b

\* the largest k >= from with k * k <= m
RECURSIVE FloorRoot(_, _)
FloorRoot(m, from) ==
    IF (from + 1) * (from + 1) > m THEN from ELSE FloorRoot(m, from + 1)

\* int(math.sqrt(n) * 2): 2 * sqrt(n) = sqrt(4 * n), truncated. math.sqrt is exact
\* on perfect squares, so the truncation is the floor of the real value.
IntSqrtTimes2(n) == FloorRoot(4 * n, 0)

\* round(math.sqrt(n) * 2): the k with (2k - 1)^2 <= 16 n < (2k + 1)^2
RoundSqrtTimes2(n) == (FloorRoot(16 * n, 0) + 1) \div 2

MinCols == 3
MaxCols == 8

\* columns by rounding instead of truncating
GridCols_round(n) == Min(MaxCols, Max(MinCols, RoundSqrtTimes2(n)))

\* cols = min(8, max(3, int(math.sqrt(n) * 2)))
GridCols(n) == Min(MaxCols, Max(MinCols, IntSqrtTimes2(n)))

\* rows = math.ceil(n / cols)
GridRows(n) == (n + GridCols(n) - 1) \div GridCols(n)

\* Image.open(path).convert("RGB") succeeds
Decodable(bytes) == bytes = "image"

\* no file at COLLAGE_PATH
NoFile == [exists |-> FALSE, cols |-> 0, rows |-> 0, tiles |-> <<>>]
\* an image that was at COLLAGE_PATH before the first request
Leftover == [exists |-> TRUE, cols |-> 0, rows |-> 0, tiles |-> <<>>]

\* Image.new("RGB", (cols * tile_w, rows * tile_h), (255, 255, 255)), in tile
\* slots <<row, column>>; raised: an exception has left the loop
NewCanvas(cols, rows) ==
    [raised |-> FALSE,
     tiles |-> [slot \in (0..(rows - 1)) \X (0..(cols - 1)) |-> Blank]]

\* collage.paste(img, (c * tile_w, r * tile_h)) with r = i // cols, c = i % cols
Paste(canvas, path, i, cols) ==
    [canvas EXCEPT !.tiles[<<i \div cols, i % cols>>] = path]

\* the loop body without the try/except
PasteTile_raising(canvas, dir, list, i, cols) ==
    IF Decodable(dir[list[i + 1]])
    THEN Paste(canvas, list[i + 1], i, cols)
    ELSE [canvas EXCEPT !.raised = TRUE]

\* the loop body for enumerate index i (list[i + 1] here): try: open, convert,
\* resize, paste; except Exception: continue
PasteTile(canvas, dir, list, i, cols) ==
    IF Decodable(dir[list[i + 1]])
    THEN Paste(canvas, list[i + 1], i, cols)
    ELSE canvas

\* for i, path in enumerate(covers): ...
RECURSIVE PasteFrom(_, _, _, _, _)
PasteFrom(canvas, dir, list, i, cols) ==
    IF canvas.raised \/ i >= Len(list) THEN canvas
    ELSE PasteFrom(PasteTile(canvas, dir, list, i, cols), dir, list, i + 1, cols)

\* lines 88-106 for a non-empty list of covers: the image to save, and whether
\* an exception ended the function before collage.save
BuildCollage(dir, list) ==
    LET n == Len(list)
        cols == GridCols(n)
        rows == GridRows(n)
        canvas == PasteFrom(NewCanvas(cols, rows), dir, list, 0, cols)
    IN [raised |-> canvas.raised,
        file |-> [exists |-> TRUE, cols |-> cols, rows |-> rows,
                  tiles |-> canvas.tiles]]

\* generate_cover_collage with the unlink of the empty case left out
Generate_keep(dir, file) ==
    LET list == ListCovers(dir) IN
    IF list = <<>> THEN [raised |-> FALSE, file |-> file]
    ELSE LET built == BuildCollage(dir, list) IN
         IF built.raised THEN [raised |-> TRUE, file |-> file] ELSE built

\* generate_cover_collage(): COLLAGE_PATH afterwards (file: its content before),
\* and whether the call raised
Generate(dir, file) ==
    LET list == ListCovers(dir) IN
    IF list = <<>> THEN [raised |-> FALSE, file |-> NoFile]
    ELSE LET built == BuildCollage(dir, list) IN
         IF built.raised THEN [raised |-> TRUE, file |-> file] ELSE built

----------------------------------------------------------------------------
(* The books table *)

\* SELECT * FROM books WHERE id = ?
Matching(table, book_id) == { r \in table : r.id = book_id }

\* the counter after an INSERT: AUTOINCREMENT never hands out an id again
InsertId(counter) == counter + 1

\* INSERT INTO books (...) VALUES (...); the id is the counter's
InsertRow(table, counter, title, author, edition, genre, cover_filename, created_at, hover_message) ==
    table \cup { [id |-> counter, title |-> title, author |-> author,
                  author_first |-> author_first_name(author), edition |-> edition,
                  genre |-> genre, cover_filename |-> cover_filename,
                  created_at |-> created_at, hover_message |-> hover_message] }

\* an UPDATE that also stamps created_at
UpdateRow_stamped(r, title, author, edition, genre, hover_message, cover_filename, t) ==
    [r EXCEPT !.title = title, !.author = author,
              !.author_first = author_first_name(author), !.edition = edition,
              !.genre = genre, !.hover_message = hover_message,
              !.cover_filename = cover_filename, !.created_at = t]

\* UPDATE books SET title, author, author_first, edition, genre, hover_message,
\* cover_filename on one row (t, the time of the request, is not used)
UpdateRow(r, title, author, edition, genre, hover_message, cover_filename, t) ==
    [r EXCEPT !.title = title, !.author = author,
              !.author_first = author_first_name(author), !.edition = edition,
              !.genre = genre, !.hover_message = hover_message,
              !.cover_filename = cover_filename]

\* UPDATE ... WHERE id = ?
UpdateRows(table, book_id, title, author, edition, genre, hover_message, cover_filename, t) ==
    { IF r.id = book_id
      THEN UpdateRow(r, title, author, edition, genre, hover_message, cover_filename, t)
      ELSE r : r \in table }

\* DELETE FROM books WHERE id = ?
DeleteRows(table, book_id) == { r \in table : r.id # book_id }

\* an edit that forgets the stored cover when none is uploaded
EditCover_dropped(existing, cover, name) ==
    IF HasUpload(cover) THEN name ELSE NULL

\* cover_filename = existing["cover_filename"], replaced when a cover is uploaded
EditCover(existing, cover, name) ==
    IF HasUpload(cover) THEN name ELSE existing.cover_filename

\* a not-found answer that is an error
EditMissing_error == [status |-> 404, location |-> ""]

\* if not existing: return RedirectResponse(url="/collection", status_code=303)
EditMissing == Redirect

\* a delete that also removes the row's cover file
DirAfterDelete_unlinked(dir, table, book_id) ==
    [f \in DOMAIN dir \ { r.cover_filename : r \in Matching(table, book_id) } |-> dir[f]]

\* delete_book does not touch COVERS_DIR
DirAfterDelete(dir, table, book_id) == dir

\* the answer of a handler whose generate_cover_collage call raised or not
Answer(raised) == IF raised THEN ServerError ELSE Redirect

----------------------------------------------------------------------------
(* State *)

BookIds == 1..MaxId
NoLayout == [n |-> 0, cols |-> 0, rows |-> 0]
NoRequest == [op |-> "none", id |-> 0, found |-> FALSE, upload |-> FALSE]

\* the part of the state the one-at-a-time handlers do not use
Idle ==
    /\ layout = NoLayout
    /\ procs = <<>>
    /\ loopBusy = NoProc

\* an empty library: the module-level code has created the table and COVERS_DIR;
\* a collage file may be left at COLLAGE_PATH
Init ==
    /\ books = {}
    /\ nextId = 1
    /\ covers = <<>>
    /\ collage \in {NoFile, Leftover}
    /\ now = 0
    /\ response = NoResponse
    /\ last = NoRequest
    /\ Idle

----------------------------------------------------------------------------
(* Handlers, one request at a time *)

\* the values uuid.uuid4() may return to a handler given this cover (none is
\* drawn without an upload)
UuidChoices(cover) ==
    IF HasUpload(cover) THEN { h \in Hexes(MaxFiles) : FreshHex(covers, h) }
    ELSE { <<"0">> }

\* POST /add
AddBook(title, author, edition, genre, hover_message, cover, h) ==
    LET name == CoverName(h, cover)
        cover_filename == IF HasUpload(cover) THEN name ELSE NULL
        dir == IF HasUpload(cover) THEN WriteBytes(covers, name, cover.bytes) ELSE covers
        gen == Generate(dir, collage)
    IN /\ nextId <= MaxId
       /\ covers' = dir
       /\ books' = InsertRow(books, nextId, title, author, edition, genre,
                             cover_filename, now, hover_message)
       /\ nextId' = InsertId(nextId)
       /\ collage' = gen.file
       /\ response' = Answer(gen.raised)
       /\ last' = [op |-> "add", id |-> nextId, found |-> FALSE,
                   upload |-> HasUpload(cover)]
       /\ UNCHANGED <<now, layout, procs, loopBusy>>

\* POST /book/{book_id}/edit
EditBook(book_id, title, author, edition, genre, hover_message, cover, h) ==
    IF Matching(books, book_id) = {}
    THEN /\ response' = EditMissing
         /\ last' = [op |-> "edit", id |-> book_id, found |-> FALSE,
                     upload |-> HasUpload(cover)]
         /\ UNCHANGED <<books, nextId, covers, collage, now, layout, procs, loopBusy>>
    ELSE LET existing == CHOOSE r \in Matching(books, book_id) : TRUE
             name == CoverName(h, cover)
             cover_filename == EditCover(existing, cover, name)
             dir == IF HasUpload(cover) THEN WriteBytes(covers, name, cover.bytes)
                    ELSE covers
             gen == Generate(dir, collage)
         IN /\ covers' = dir
            /\ books' = UpdateRows(books, book_id, title, author, edition, genre,
                                   hover_message, cover_filename, now)
            /\ collage' = gen.file
            /\ response' = Answer(gen.raised)
            /\ last' = [op |-> "edit", id |-> book_id, found |-> TRUE,
                        upload |-> HasUpload(cover)]
            /\ UNCHANGED <<nextId, now, layout, procs, loopBusy>>

\* POST /book/{book_id}/delete
DeleteBook(book_id) ==
    LET dir == DirAfterDelete(covers, books, book_id)
        gen == Generate(dir, collage)
    IN /\ books' = DeleteRows(books, book_id)
       /\ covers' = dir
       /\ collage' = gen.file
       /\ response' = Answer(gen.raised)
       /\ last' = [op |-> "delete", id |-> book_id,
                   found |-> Matching(books, book_id) # {}, upload |-> FALSE]
       /\ UNCHANGED <<nextId, now, layout, procs, loopBusy>>

Add(authors, uploads) ==
    \E title \in Titles, author \in authors, edition \in Editions, genre \in Genres,
       hover_message \in HoverMessages, cover \in uploads :
        \E h \in UuidChoices(cover) :
            AddBook(title, author, edition, genre, hover_message, cover, h)

Edit(authors, uploads) ==
    \E book_id \in BookIds, title \in Titles, author \in authors, edition \in Editions,
       genre \in Genres, hover_message \in HoverMessages, cover \in uploads :
        \E h \in UuidChoices(cover) :
            EditBook(book_id, title, author, edition, genre, hover_message, cover, h)

Delete == \E book_id \in BookIds : DeleteBook(book_id)

\* a second passes between two requests
Tick ==
    /\ now < MaxClock
    /\ now' = now + 1
    /\ UNCHANGED <<books, nextId, covers, collage, response, last, layout, procs, loopBusy>>

\* requests with every kind of cover upload, all served within one second
CoverRequests ==
    \/ Add(OneAuthor, Uploads)
    \/ Edit(OneAuthor, Uploads)
    \/ Delete

Spec == Init /\ [][CoverRequests]_vars

\* requests with or without a cover, while time passes
TimedRequests ==
    \/ Add(OneAuthor, PlainUploads)
    \/ Edit(OneAuthor, PlainUploads)
    \/ Delete
    \/ Tick

SpecClock == Init /\ [][TimedRequests]_vars

\* requests with every kind of author string, without uploads
AuthorRequests ==
    \/ Add(Authors, {NoUpload})
    \/ Edit(Authors, {NoUpload})
    \/ Delete

SpecAuthors == Init /\ [][AuthorRequests]_vars

----------------------------------------------------------------------------
(* The grid of the collage, as a function of the asset count *)

InitLayout ==
    /\ books = {}
    /\ nextId = 1
    /\ covers = <<>>
    /\ collage = NoFile
    /\ now = 0
    /\ response = NoResponse
    /\ last = NoRequest
    /\ layout \in [n : 1..MaxN, cols : {0}, rows : {0}]
    /\ procs = <<>>
    /\ loopBusy = NoProc

\* lines 89-92 for n = len(covers)
ComputeLayout ==
    /\ layout.cols = 0
    /\ layout' = [n |-> layout.n, cols |-> GridCols(layout.n), rows |-> GridRows(layout.n)]
    /\ UNCHANGED <<books, nextId, covers, collage, now, response, last, procs, loopBusy>>

SpecLayout == InitLayout /\ [][ComputeLayout]_vars

----------------------------------------------------------------------------
(* generate_cover_collage on any directory *)

\* what a directory may hold under one hex name
FileKinds ==
    { [suffix |-> <<".", "j", "p", "g">>, bytes |-> "image"],
      [suffix |-> <<".", "p", "n", "g">>, bytes |-> "garbage"],
      [suffix |-> <<".", "g", "i", "f">>, bytes |-> "image"] }
Absent == [suffix |-> <<>>, bytes |-> "absent"]

\* the directory with file HexDigits[i] \o a[i].suffix for each i where a[i] is a kind
DirOf(a) ==
    LET present == { i \in DOMAIN a : a[i] # Absent }
        names == { <<HexDigits[i]>> \o a[i].suffix : i \in present }
    IN [f \in names |->
          a[CHOOSE i \in present : <<HexDigits[i]>> \o a[i].suffix = f].bytes]

InitGenerate ==
    /\ books = {}
    /\ nextId = 1
    /\ covers \in { DirOf(a) : a \in [1..MaxDir -> FileKinds \cup {Absent}] }
    /\ collage \in {NoFile, Leftover}
    /\ now = 0
    /\ response = NoResponse
    /\ last = NoRequest
    /\ Idle

\* one call of generate_cover_collage()
GenerateCoverCollage ==
    LET gen == Generate(covers, collage) IN
    /\ last = NoRequest
    /\ collage' = gen.file
    /\ response' = Answer(gen.raised)
    /\ last' = [op |-> "generate", id |-> 0, found |-> FALSE, upload |-> FALSE]
    /\ UNCHANGED <<books, nextId, covers, now, layout, procs, loopBusy>>

SpecGenerate == InitGenerate /\ [][GenerateCoverCollage]_vars

----------------------------------------------------------------------------
(* Overlapping requests.  add_book and edit_book are coroutines: they run on   *)
(* the event loop, one at a time between two awaits, and their only await is   *)
(* cover.read().  delete_book is a plain function: the framework runs it in a  *)
(* worker thread, beside the event loop and beside other deletes.  A step is   *)
(* one statement on the database or the file system.                           *)

Procs == 1..MaxProcs

\* a request slot: pc is the next statement, the rest are the handler's locals
IdleProc ==
    [pc |-> "idle", kind |-> "none", book_id |-> 0, cover |-> NoUpload,
     cover_filename |-> NULL, list |-> <<>>, regenerated |-> FALSE,
     answer |-> NoResponse]

InitOverlap ==
    /\ books = {}
    /\ nextId = 1
    /\ covers = <<>>
    /\ collage \in {NoFile, Leftover}
    /\ now = 0
    /\ response = NoResponse
    /\ last = NoRequest
    /\ layout = NoLayout
    /\ procs = [p \in Procs |-> IdleProc]
    /\ loopBusy = NoProc

\* p may run a statement of its coroutine: it holds the event loop or the loop is free
OnLoop(p) == loopBusy = p \/ loopBusy = NoProc

Shared == <<now, response, last, layout>>

\* a request arrives
Receive(p, kind, book_id, cover) ==
    /\ procs[p].pc = "idle"
    /\ kind = "add" => nextId + Cardinality({ q \in Procs : procs[q].kind = "add"
                                                 /\ procs[q].pc # "done" }) <= MaxId
    /\ procs' = [procs EXCEPT ![p] =
                    [IdleProc EXCEPT !.pc = IF kind = "delete" THEN "delete" ELSE "start",
                                     !.kind = kind, !.book_id = book_id, !.cover = cover]]
    /\ UNCHANGED <<books, nextId, covers, collage, loopBusy, Shared>>

\* add_book up to `await cover.read()` (lines 136-141); the await may give up the loop
AddStart(p, yields) ==
    /\ procs[p].pc = "start" /\ procs[p].kind = "add"
    /\ OnLoop(p)
    /\ IF HasUpload(procs[p].cover)
       THEN /\ procs' = [procs EXCEPT ![p].pc = "write"]
            /\ loopBusy' = IF yields THEN NoProc ELSE p
       ELSE /\ procs' = [procs EXCEPT ![p].pc = "insert"]
            /\ loopBusy' = p
    /\ UNCHANGED <<books, nextId, covers, collage, Shared>>

\* edit_book up to `await cover.read()` (lines 214-225)
EditStart(p, yields) ==
    /\ procs[p].pc = "start" /\ procs[p].kind = "edit"
    /\ OnLoop(p)
    /\ IF Matching(books, procs[p].book_id) = {}
       THEN /\ procs' = [procs EXCEPT ![p].pc = "done", ![p].answer = EditMissing]
            /\ loopBusy' = NoProc
       ELSE LET existing == CHOOSE r \in Matching(books, procs[p].book_id) : TRUE IN
            IF HasUpload(procs[p].cover)
            THEN /\ procs' = [procs EXCEPT ![p].pc = "write",
                                           ![p].cover_filename = existing.cover_filename]
                 /\ loopBusy' = IF yields THEN NoProc ELSE p
            ELSE /\ procs' = [procs EXCEPT ![p].pc = "update",
                                           ![p].cover_filename =
                                               EditCover(existing, procs[p].cover, NULL)]
                 /\ loopBusy' = p
    /\ UNCHANGED <<books, nextId, covers, collage, Shared>>

\* cover_filename = f"{uuid.uuid4().hex}{suffix}"; write_bytes (lines 140-141, 224-225)
WriteCover(p, h) ==
    /\ procs[p].pc = "write"
    /\ OnLoop(p)
    /\ h \in UuidChoices(procs[p].cover)
    /\ LET name == CoverName(h, procs[p].cover) IN
       /\ covers' = WriteBytes(covers, name, procs[p].cover.bytes)
       /\ procs' = [procs EXCEPT ![p].cover_filename = name,
                                 ![p].pc = IF procs[p].kind = "add" THEN "insert"
                                           ELSE "update"]
    /\ loopBusy' = p
    /\ UNCHANGED <<books, nextId, collage, Shared>>

\* INSERT and commit (lines 143-164)
InsertBook(p, title, author, edition, genre, hover_message) ==
    /\ procs[p].pc = "insert"
    /\ OnLoop(p)
    /\ books' = InsertRow(books, nextId, title, author, edition, genre,
                          procs[p].cover_filename, now, hover_message)
    /\ nextId' = InsertId(nextId)
    /\ procs' = [procs EXCEPT ![p].pc = "list"]
    /\ loopBusy' = p
    /\ UNCHANGED <<covers, collage, Shared>>

\* UPDATE and commit (lines 227-246)
UpdateBook(p, title, author, edition, genre, hover_message) ==
    /\ procs[p].pc = "update"
    /\ OnLoop(p)
    /\ books' = UpdateRows(books, procs[p].book_id, title, author, edition, genre,
                           hover_message, procs[p].cover_filename, now)
    /\ procs' = [procs EXCEPT ![p].pc = "list"]
    /\ loopBusy' = p
    /\ UNCHANGED <<nextId, covers, collage, Shared>>

\* DELETE and commit, in a worker thread (lines 254-257)
DeleteBookRows(p) ==
    /\ procs[p].pc = "delete"
    /\ books' = DeleteRows(books, procs[p].book_id)
    /\ procs' = [procs EXCEPT ![p].pc = "list"]
    /\ UNCHANGED <<nextId, covers, collage, loopBusy, Shared>>

\* p has returned with this answer
Return(p, answer) ==
    /\ procs' = [procs EXCEPT ![p].pc = "done", ![p].answer = answer]
    /\ loopBusy' = IF loopBusy = p THEN NoProc ELSE loopBusy

\* covers = sorted(COVERS_DIR.glob("*")), filtered (lines 80-83)
ListStep(p) ==
    /\ procs[p].pc = "list"
    /\ LET list == ListCovers(covers) IN
       procs' = [procs EXCEPT ![p].list = list, ![p].regenerated = TRUE,
                              ![p].pc = IF list = <<>> THEN "exists" ELSE "save"]
    /\ UNCHANGED <<books, nextId, covers, collage, loopBusy, Shared>>

\* if COLLAGE_PATH.exists(): ... return (lines 84, 86)
ExistsStep(p) ==
    /\ procs[p].pc = "exists"
    /\ IF collage.exists
       THEN /\ procs' = [procs EXCEPT ![p].pc = "unlink"]
            /\ UNCHANGED loopBusy
       ELSE Return(p, Redirect)
    /\ UNCHANGED <<books, nextId, covers, collage, Shared>>

\* COLLAGE_PATH.unlink() (line 85): FileNotFoundError when the file is gone
UnlinkStep(p) ==
    /\ procs[p].pc = "unlink"
    /\ IF collage.exists
       THEN collage' = NoFile /\ Return(p, Redirect)
       ELSE collage' = collage /\ Return(p, ServerError)
    /\ UNCHANGED <<books, nextId, covers, Shared>>

\* the loop over the listed covers and collage.save (lines 88-106); a listed file
\* is never removed or rewritten, so the image depends on the list alone
SaveStep(p) ==
    /\ procs[p].pc = "save"
    /\ LET built == BuildCollage(covers, procs[p].list) IN
       IF built.raised
       THEN collage' = collage /\ Return(p, ServerError)
       ELSE collage' = built.file /\ Return(p, Redirect)
    /\ UNCHANGED <<books, nextId, covers, Shared>>

Overlap ==
    \/ \E p \in Procs, kind \in {"add", "edit", "delete"}, book_id \in BookIds,
          cover \in PlainUploads :
           /\ kind = "add" => book_id = 1
           /\ kind = "delete" => cover = NoUpload
           /\ Receive(p, kind, book_id, cover)
    \/ \E p \in Procs, yields \in BOOLEAN : AddStart(p, yields)
    \/ \E p \in Procs, yields \in BOOLEAN : EditStart(p, yields)
    \/ \E p \in Procs, h \in Hexes(MaxFiles) : WriteCover(p, h)
    \/ \E p \in Procs, title \in Titles, author \in OneAuthor, edition \in Editions,
          genre \in Genres, hover_message \in HoverMessages :
           InsertBook(p, title, author, edition, genre, hover_message)
    \/ \E p \in Procs, title \in Titles, author \in OneAuthor, edition \in Editions,
          genre \in Genres, hover_message \in HoverMessages :
           UpdateBook(p, title, author, edition, genre, hover_message)
    \/ \E p \in Procs : DeleteBookRows(p)
    \/ \E p \in Procs : ListStep(p)
    \/ \E p \in Procs : ExistsStep(p)
    \/ \E p \in Procs : UnlinkStep(p)
    \/ \E p \in Procs : SaveStep(p)

SpecOverlap == InitOverlap /\ [][Overlap]_vars

----------------------------------------------------------------------------
(* Vocabulary of the properties *)

\* s ends with the extension e
EndsWith(s, e) ==
    Len(s) > Len(e) /\ SubSeq(s, Len(s) - Len(e) + 1, Len(s)) = e

\* the files of a directory with extension jpg, jpeg, png or webp
CoverAssets(dir) ==
    { f \in DOMAIN dir : \E e \in AllowedSuffixes : EndsWith(Lower(f), e) }

\* the index (from 0) of asset f in the list of assets sorted by name
IndexOf(dir, f) == Cardinality({ g \in CoverAssets(dir) : StrLess(g, f) })

\* k = floor(2 * sqrt(n))
IsFloorTwiceRoot(k, n) == k * k <= 4 * n /\ 4 * n < (k + 1) * (k + 1)

\* k = round(2 * sqrt(n)); 2 * sqrt(n) is never half-way between two integers
IsRoundTwiceRoot(k, n) ==
    (2 * k - 1) * (2 * k - 1) <= 16 * n /\ 16 * n < (2 * k + 1) * (2 * k + 1)

Clamp(k, lo, hi) == IF k < lo THEN lo ELSE IF k > hi THEN hi ELSE k

\* r = ceil(n / c)
IsCeilDiv(r, n, c) == r * c >= n /\ (r - 1) * c < n

\* file is the collage of dir: absent when dir has no asset; otherwise built from
\* all its assets, each in the slot of its index, undecodable ones left blank
MatchesDirectory(file, dir) ==
    LET assets == CoverAssets(dir)
        n == Cardinality(assets)
    IN IF assets = {} THEN ~file.exists
       ELSE /\ file.exists
            /\ \E k \in 0..(4 * n) :
                  IsFloorTwiceRoot(k, n) /\ file.cols = Clamp(k, 3, 8)
            /\ IsCeilDiv(file.rows, n, file.cols)
            /\ DOMAIN file.tiles = (0..(file.rows - 1)) \X (0..(file.cols - 1))
            /\ \A f \in assets :
                  file.tiles[<<IndexOf(dir, f) \div file.cols, IndexOf(dir, f) % file.cols>>]
                      = IF dir[f] = "image" THEN f ELSE Blank
            /\ \A slot \in DOMAIN file.tiles :
                  slot[1] * file.cols + slot[2] >= n => file.tiles[slot] = Blank

\* the step is a delete of a record that exists
DeletesRecord == last'.op = "delete" /\ last'.found /\ books' # books

\* the last request served ran generate_cover_collage
Regenerated == last.op \in {"add", "delete"} \/ (last.op = "edit" /\ last.found)

----------------------------------------------------------------------------
(* C1 *)

OneBookWithCoverAndCollage ==
    /\ Cardinality(books) = 1
    /\ \A r \in books : r.cover_filename # NULL
    /\ collage.exists

\* C1 as stated: deleting the only book, which has an uploaded cover, while a
\* collage file exists, leaves no collage file.
C1_NoCollageAfterLastDelete ==
    [][OneBookWithCoverAndCollage /\ DeletesRecord => ~collage'.exists]_vars

\* C1 amended: deleting the only book, which has an uploaded cover, while a
\* collage file exists, removes no cover file; afterwards a collage file exists
\* exactly if the directory holds a file with an allow-listed extension, so it
\* exists whenever the deleted book's cover has one.
C1_CollageFollowsFilesAfterLastDelete ==
    [][OneBookWithCoverAndCollage /\ DeletesRecord =>
          /\ covers' = covers
          /\ collage'.exists <=> CoverAssets(covers') # {}
          /\ \A r \in books :
                r.cover_filename \in CoverAssets(covers) => collage'.exists]_vars

\* the only book ever added, which had a cover, was deleted, and the collage is there
C1_Witness ==
    /\ last.op = "delete" /\ last.found
    /\ books = {} /\ nextId = 2
    /\ CoverAssets(covers) # {}
    /\ collage.exists

----------------------------------------------------------------------------
(* C2 *)

\* C2 as stated: columns = clamp(round(2 sqrt N), 3, 8), rows = ceil(N / columns),
\* and N = 1, 9, 64 give 3, 6, 8 columns.
C2_ColumnsRound ==
    layout.cols # 0 =>
        /\ \E k \in 0..(4 * layout.n) :
              IsRoundTwiceRoot(k, layout.n) /\ layout.cols = Clamp(k, 3, 8)
        /\ IsCeilDiv(layout.rows, layout.n, layout.cols)
        /\ (layout.n = 1 => layout.cols = 3)
        /\ (layout.n = 9 => layout.cols = 6)
        /\ (layout.n = 64 => layout.cols = 8)

\* C2 amended: columns = clamp(floor(2 sqrt N), 3, 8), the product truncated and
\* not rounded, rows = ceil(N / columns), and N = 1, 9, 64 give 3, 6, 8 columns.
C2_ColumnsFloor ==
    layout.cols # 0 =>
        /\ \E k \in 0..(4 * layout.n) :
              IsFloorTwiceRoot(k, layout.n) /\ layout.cols = Clamp(k, 3, 8)
        /\ IsCeilDiv(layout.rows, layout.n, layout.cols)
        /\ (layout.n = 1 => layout.cols = 3)
        /\ (layout.n = 9 => layout.cols = 6)
        /\ (layout.n = 64 => layout.cols = 8)

\* 2 sqrt 6 = 4.9: six assets are laid out in 4 columns and 2 rows
C2_Witness == layout.n = 6 /\ layout.cols = 4 /\ layout.rows = 2

----------------------------------------------------------------------------
(* C3 *)

\* C3: the cover_filename of a record changes only in an edit of that record that
\* carries a new cover upload; an edit without one leaves it as it was.
C3_CoverKeptWithoutUpload ==
    [][\A r \in books : \A q \in books' :
          q.id = r.id /\ q.cover_filename # r.cover_filename =>
              last'.op = "edit" /\ last'.id = r.id /\ last'.upload]_vars

\* an edit without upload of a record that has a cover; the cover is still there
C3_Witness ==
    /\ last.op = "edit" /\ last.found /\ ~last.upload
    /\ \E r \in books : r.id = last.id /\ r.cover_filename \in DOMAIN covers

----------------------------------------------------------------------------
(* C4 *)

\* C4: an edit or delete of an id without a record leaves the books table as it
\* is, an edit writes no cover file, and the answer is the 303 redirect to
\* /collection that every edit and delete gives.
C4_MissingIdIsNoOp ==
    [][/\ last'.op \in {"edit", "delete"} => response' = Redirect
       /\ last'.op \in {"edit", "delete"} /\ ~last'.found => books' = books
       /\ last'.op = "edit" /\ ~last'.found => covers' = covers]_vars

\* an edit with an upload for an id without a record, in a library with records
C4_Witness ==
    /\ last.op = "edit" /\ ~last.found /\ last.upload
    /\ books # {}
    /\ response = Redirect

----------------------------------------------------------------------------
(* C5 *)

AllSpace(s) == \A i \in 1..Len(s) : s[i] \in Whitespace

\* tok is the lower-cased first whitespace-delimited token of s
IsFirstTokenLower(tok, s) ==
    \E i \in 1..Len(s), j \in 1..Len(s) :
        /\ i <= j
        /\ \A k \in 1..(i - 1) : s[k] \in Whitespace
        /\ \A k \in i..j : s[k] \notin Whitespace
        /\ j = Len(s) \/ s[j + 1] \in Whitespace
        /\ tok = [k \in 1..(j - i + 1) |-> LowerChar(s[i + k - 1])]

\* C5: every stored record has author_first = lowercase(first whitespace-delimited
\* token of author), and "" when author is empty or all whitespace.
C5_AuthorFirstDerived ==
    \A r \in books :
        IF AllSpace(r.author) THEN r.author_first = <<>>
        ELSE IsFirstTokenLower(r.author_first, r.author)

\* an edit stored an author with leading whitespace, capitals and two tokens
C5_Witness ==
    /\ last.op = "edit" /\ last.found
    /\ \E r \in books :
          /\ r.id = last.id
          /\ r.author = <<" ", "J", "o", "\t", "D", " ">>
          /\ r.author_first = <<"j", "o">>
    /\ \E r \in books : AllSpace(r.author) /\ r.author_first = <<>>

----------------------------------------------------------------------------
(* C6 *)

\* C6: a record keeps its id and created_at while it exists; only an add brings a
\* new id, and no two records share an id.
C6_IdAndCreatedAtKept ==
    [][/\ \A r \in books : \A q \in books' : q.id = r.id => q.created_at = r.created_at
       /\ { q.id : q \in books' } \subseteq { r.id : r \in books } \cup {nextId}
       /\ last'.op = "edit" => { q.id : q \in books' } = { r.id : r \in books }
       /\ \A q1 \in books' : \A q2 \in books' : q1.id = q2.id => q1 = q2]_vars

\* an edit with a new cover, a second after the record was added, with two records
C6_Witness ==
    /\ last.op = "edit" /\ last.found /\ last.upload
    /\ \E r \in books : r.id = last.id /\ r.created_at < now
    /\ Cardinality(books) = 2

----------------------------------------------------------------------------
(* C7 *)

\* C7: after each completed add, edit of an existing book, or delete, the collage
\* file exists exactly if the cover directory holds a jpg, jpeg, png or webp
\* file, and it is built from all of them.
C7_CollageMatchesAfterMutation == Regenerated => MatchesDirectory(collage, covers)

\* after a delete, a collage of the one asset of a directory that also holds a
\* file that is no asset
C7_Witness ==
    /\ last.op = "delete" /\ last.found
    /\ Cardinality(CoverAssets(covers)) = 1
    /\ Cardinality(DOMAIN covers) = 2
    /\ collage.exists

----------------------------------------------------------------------------
(* C8 *)

\* C8: for a non-empty list of assets, generation does not fail and writes the
\* collage; every asset has the slot of its index, filled if it decodes and blank
\* if not; 3 valid covers and 1 corrupt file give 4 slots with exactly one blank.
C8_CorruptAssetsLeftBlank ==
    last.op = "generate" /\ CoverAssets(covers) # {} =>
        /\ response = Redirect
        /\ collage.exists
        /\ \A f \in CoverAssets(covers) :
              LET i == IndexOf(covers, f) IN
              collage.tiles[<<i \div collage.cols, i % collage.cols>>]
                  = IF covers[f] = "image" THEN f ELSE Blank
        /\ ( /\ Cardinality(CoverAssets(covers)) = 4
             /\ Cardinality({ f \in CoverAssets(covers) : covers[f] = "garbage" }) = 1 )
           => /\ Cardinality(DOMAIN collage.tiles) = 4
              /\ Cardinality({ slot \in DOMAIN collage.tiles :
                                  collage.tiles[slot] = Blank }) = 1

\* a collage of 3 valid covers and 1 corrupt file
C8_Witness ==
    /\ last.op = "generate"
    /\ Cardinality(CoverAssets(covers)) = 4
    /\ Cardinality({ f \in CoverAssets(covers) : covers[f] = "garbage" }) = 1
    /\ collage.exists

----------------------------------------------------------------------------
(* C9 *)

\* C9: no step removes or changes a file of the cover directory, and every
\* non-null cover_filename of a record names a file of the directory.
C9_CoverFilesOnlyGrow ==
    [][/\ \A f \in DOMAIN covers : f \in DOMAIN covers' /\ covers'[f] = covers[f]
       /\ \A q \in books' :
             q.cover_filename # NULL => q.cover_filename \in DOMAIN covers']_vars

\* the only book was deleted; its cover and the one an edit superseded are on disk
C9_Witness ==
    /\ last.op = "delete" /\ last.found
    /\ books = {} /\ nextId = 2
    /\ Cardinality(DOMAIN covers) = 2

----------------------------------------------------------------------------
(* C10 *)

Quiet == \A p \in Procs : procs[p].pc \in {"idle", "done"}

\* C10 as stated: once every overlapping request has returned, the collage
\* matches the cover directory: it exists exactly if an allow-listed cover file
\* exists, and it is built from all of them.
C10_CollageMatchesWhenQuiet ==
    Quiet /\ (\E p \in Procs : procs[p].pc = "done" /\ procs[p].regenerated)
        => MatchesDirectory(collage, covers)

====
